---- MODULE Spec2Model ----
(***************************************************************************)
(* Flashcard generation engine of mesh18/study-app (the Hono server of     *)
(* src/unnamed/part_000): the sizing estimator, the key-term extractor,    *)
(* the four heuristic card builders, the heuristic coordinator, the AI     *)
(* tier coordinator and the generate-flashcards route with its store.      *)
(* The client's two copies of the sizing estimator (FlashcardGenerator.tsx *)
(* and GenerationProgress.tsx) are modelled next to the server's.          *)
(*                                                                         *)
(* Texts are TLA+ strings handled character by character (Len, SubSeq and  *)
(* \o), so that splitting, trimming, cleaning and searching are computed   *)
(* the way the JavaScript string methods compute them.                     *)
(***************************************************************************)
EXTENDS Integers, Sequences, FiniteSets, TLC

(***************************************************************************)
(* Characters and the JavaScript string methods the server uses.           *)
(***************************************************************************)
UpperLetters == "ABCDEFGHIJKLMNOPQRSTUVWXYZ"
LowerLetters == "abcdefghijklmnopqrstuvwxyz"
DigitLetters == "0123456789"

CharsOf(s) == { SubSeq(s, i, i) : i \in 1..Len(s) }

UpperChars == CharsOf(UpperLetters)
LowerChars == CharsOf(LowerLetters)
\* \w of a JavaScript regular expression: [A-Za-z0-9_]
WordChars == UpperChars \cup LowerChars \cup CharsOf(DigitLetters) \cup {"_"}
\* \s restricted to the white space the model's texts contain
SpaceChars == {" ", "\n", "\t"}
\* the character class [.!?]
TerminalChars == {".", "!", "?"}

Min(a, b) == IF a < b THEN a ELSE b
Max(a, b) == IF a > b THEN a ELSE b

\* Math.ceil(n * num / den) and Math.floor(n * num / den) for the weights the
\* server multiplies by (0.2, 0.3, 0.4, 0.5, 0.7); the IEEE-754 products agree
\* with the exact ones for every n in 0..40 (ceil) and 0..89 (floor).
CeilMul(n, num, den) == (n * num + den - 1) \div den
FloorMul(n, num, den) == (n * num) \div den

\* `${n}` for an integer n >= 0: its decimal digits
RECURSIVE numberText(_)
numberText(n) ==
    IF n < 10 THEN SubSeq(DigitLetters, n + 1, n + 1)
    ELSE numberText(n \div 10) \o SubSeq(DigitLetters, (n % 10) + 1, (n % 10) + 1)

\* Array.prototype.slice(0, n) for n >= 0
slice(seq, n) == SubSeq(seq, 1, Min(n, Len(seq)))

\* String.prototype.toLowerCase, one character
LowerChar(c) ==
    IF c \in UpperChars
    THEN LET i == CHOOSE k \in 1..Len(UpperLetters) : SubSeq(UpperLetters, k, k) = c
         IN SubSeq(LowerLetters, i, i)
    ELSE c

\* the elements of a finite set of integers in increasing order
sortedSeq(S) ==
    [ k \in 1..Cardinality(S) |-> CHOOSE i \in S : Cardinality({ j \in S : j <= i }) = k ]

\* String.prototype.toLowerCase (the string is halved, not walked, to keep
\* the evaluation shallow)
RECURSIVE toLowerCase(_)
toLowerCase(s) ==
    IF Len(s) = 0 THEN ""
    ELSE IF Len(s) = 1 THEN LowerChar(s)
    ELSE toLowerCase(SubSeq(s, 1, Len(s) \div 2))
         \o toLowerCase(SubSeq(s, Len(s) \div 2 + 1, Len(s)))

\* word.replace(/[^\w]/g, '')
RECURSIVE stripNonWord(_)
stripNonWord(s) ==
    IF Len(s) = 0 THEN ""
    ELSE IF Len(s) = 1 THEN (IF s \in WordChars THEN s ELSE "")
    ELSE stripNonWord(SubSeq(s, 1, Len(s) \div 2))
         \o stripNonWord(SubSeq(s, Len(s) \div 2 + 1, Len(s)))

\* String.prototype.trim
trim(s) ==
    LET solid == { i \in 1..Len(s) : SubSeq(s, i, i) \notin SpaceChars }
    IN IF solid = {} THEN ""
       ELSE SubSeq(s, CHOOSE i \in solid : \A j \in solid : i <= j,
                      CHOOSE i \in solid : \A j \in solid : j <= i)

\* String.prototype.split(/[seps]+/): the pieces between maximal runs of
\* separator characters; a leading or trailing run leaves an empty piece and
\* the empty string splits into one empty piece.
splitRegex(s, seps) ==
    LET n == Len(s)
        isSep(i) == SubSeq(s, i, i) \in seps
        starts == sortedSeq({ i \in 1..n : ~isSep(i) /\ (i = 1 \/ isSep(i - 1)) })
        ends == sortedSeq({ i \in 1..n : ~isSep(i) /\ (i = n \/ isSep(i + 1)) })
        lead == IF n = 0 \/ isSep(1) THEN <<"">> ELSE <<>>
        trail == IF n > 0 /\ isSep(n) THEN <<"">> ELSE <<>>
    IN lead \o [ k \in 1..Len(starts) |-> SubSeq(s, starts[k], ends[k]) ] \o trail

\* String.prototype.split(' '): every single separator character separates
\* two pieces
splitString(s, sep) ==
    LET n == Len(s)
        cuts == <<0>> \o sortedSeq({ i \in 1..n : SubSeq(s, i, i) = sep }) \o <<n + 1>>
    IN [ k \in 1..(Len(cuts) - 1) |-> SubSeq(s, cuts[k] + 1, cuts[k + 1] - 1) ]

\* String.prototype.indexOf, 1-based; 0 when pat does not occur
indexOf(s, pat) ==
    LET hits == { i \in 1..(Len(s) - Len(pat) + 1) : SubSeq(s, i, i + Len(pat) - 1) = pat }
    IN IF Len(pat) = 0 THEN 1
       ELSE IF hits = {} THEN 0
       ELSE CHOOSE i \in hits : \A j \in hits : i <= j

\* String.prototype.includes
includes(s, pat) == indexOf(s, pat) > 0

\* String.prototype.replace(pat, rep) with a string pattern: the first
\* occurrence only
replaceFirst(s, pat, rep) ==
    LET i == indexOf(s, pat)
    IN IF i = 0 THEN s
       ELSE SubSeq(s, 1, i - 1) \o rep \o SubSeq(s, i + Len(pat), Len(s))

\* the elements of seq at the indexes in keep, in order
selectSeq(seq, keep) == [ k \in 1..Cardinality(keep) |-> seq[sortedSeq(keep)[k]] ]

\* [...new Set(seq)]: the first occurrence of every element, in order
dedupe(seq) ==
    selectSeq(seq, { i \in 1..Len(seq) : \A j \in 1..(i - 1) : seq[j] # seq[i] })

\* Array.prototype.indexOf, 0-based; -1 when absent
arrayIndexOf(seq, x) ==
    IF \E i \in 1..Len(seq) : seq[i] = x
    THEN (CHOOSE i \in 1..Len(seq) : seq[i] = x /\ \A j \in 1..(i - 1) : seq[j] # x) - 1
    ELSE -1

Range(seq) == { seq[i] : i \in 1..Len(seq) }

(***************************************************************************)
(* Sizing estimator.                                                       *)
(***************************************************************************)
\* notes.split(/[.!?]+/).filter(s => s.trim().length > 10)
IsSentence(s) == Len(trim(s)) > 10

filterSentences(pieces) ==
    selectSeq(pieces, { i \in 1..Len(pieces) : IsSentence(pieces[i]) })

sentencesOf(notes) == filterSentences(splitRegex(notes, TerminalChars))

wordsOf(notes) == splitRegex(notes, SpaceChars)

\* questionCountFor with the bucket limits taken inclusively
questionCountForInclusive(wordCount, sentenceCount) ==
    IF wordCount <= 100 THEN Min(5, sentenceCount)
    ELSE IF wordCount <= 300 THEN Min(10, FloorMul(sentenceCount, 7, 10))
    ELSE IF wordCount <= 600 THEN Min(20, FloorMul(sentenceCount, 5, 10))
    ELSE Min(30, FloorMul(sentenceCount, 4, 10))

questionCountFor(wordCount, sentenceCount) ==
    IF wordCount < 100 THEN Min(5, sentenceCount)
    ELSE IF wordCount < 300 THEN Min(10, FloorMul(sentenceCount, 7, 10))
    ELSE IF wordCount < 600 THEN Min(20, FloorMul(sentenceCount, 5, 10))
    ELSE Min(30, FloorMul(sentenceCount, 4, 10))

calculateQuestionCount(notes) ==
    questionCountFor(Len(wordsOf(notes)), Len(sentencesOf(notes)))

(***************************************************************************)
(* The client's copies of the sizing estimator.                            *)
(***************************************************************************)
\* estimatedQuestionsFor rounding to the nearest integer
estimatedQuestionsRounded(wordCount, sentenceCount) ==
    IF wordCount < 100 THEN Min(5, sentenceCount)
    ELSE IF wordCount < 300 THEN Min(10, (sentenceCount * 7 + 5) \div 10)
    ELSE IF wordCount < 600 THEN Min(20, (sentenceCount * 5 + 5) \div 10)
    ELSE Min(30, (sentenceCount * 4 + 5) \div 10)

\* FlashcardGenerator.calculateEstimatedQuestions: the four buckets
estimatedQuestionsFor(wordCount, sentenceCount) ==
    IF wordCount < 100 THEN Min(5, sentenceCount)
    ELSE IF wordCount < 300 THEN Min(10, FloorMul(sentenceCount, 7, 10))
    ELSE IF wordCount < 600 THEN Min(20, FloorMul(sentenceCount, 5, 10))
    ELSE Min(30, FloorMul(sentenceCount, 4, 10))

calculateEstimatedQuestions(text) ==
    estimatedQuestionsFor(Len(splitRegex(text, SpaceChars)),
                          Len(filterSentences(splitRegex(text, TerminalChars))))

\* const estimatedQuestions = notes ? calculateEstimatedQuestions(notes) : 0
estimatedQuestions(notes) == IF notes = "" THEN 0 ELSE calculateEstimatedQuestions(notes)

\* StudyBuddy.generateFlashcards called without a target count: the inline
\* computation of calculatedTarget
calculatedTargetFor(wordCount, sentenceCount) ==
    IF wordCount < 100 THEN Min(5, sentenceCount)
    ELSE IF wordCount < 300 THEN Min(10, FloorMul(sentenceCount, 7, 10))
    ELSE IF wordCount < 600 THEN Min(20, FloorMul(sentenceCount, 5, 10))
    ELSE Min(30, FloorMul(sentenceCount, 4, 10))

calculatedTarget(notes) ==
    calculatedTargetFor(Len(splitRegex(notes, SpaceChars)),
                        Len(filterSentences(splitRegex(notes, TerminalChars))))

(***************************************************************************)
(* Key-term extractor.                                                     *)
(***************************************************************************)
\* word.match(/^[A-Z][a-z]+/)
matchesCapitalized(word) ==
    /\ Len(word) >= 2
    /\ SubSeq(word, 1, 1) \in UpperChars
    /\ SubSeq(word, 2, 2) \in LowerChars

\* word.replace(/[^\w]/g, '').toLowerCase()
cleanedOf(word) == toLowerCase(stripNonWord(word))

\* the words pushed inside words.forEach: capitalized words longer than 3
capitalizedTerms(words) ==
    LET picked == selectSeq(words, { i \in 1..Len(words) :
                                       matchesCapitalized(words[i]) /\ Len(words[i]) > 3 })
    IN [ k \in 1..Len(picked) |-> stripNonWord(picked[k]) ]

\* the keys of termFreq in insertion order: cleaned words longer than 3.
\* (Object.entries lists keys in insertion order; the model's texts hold no
\* all-digit word and no word naming a property of Object.prototype.)
termFreqKeys(words) ==
    LET cleaned == [ i \in 1..Len(words) |-> cleanedOf(words[i]) ]
    IN dedupe(selectSeq(cleaned, { i \in 1..Len(cleaned) : Len(cleaned[i]) > 3 }))

termFreqOf(words, term) == Cardinality({ i \in 1..Len(words) : cleanedOf(words[i]) = term })

\* Object.entries(termFreq).forEach: freq > 1 && term.length > 4
frequentTerms(keys, words) ==
    selectSeq(keys, { i \in 1..Len(keys) :
                        termFreqOf(words, keys[i]) > 1 /\ Len(keys[i]) > 4 })

extractKeyTerms(text) ==
    LET words == wordsOf(text)
    IN slice(dedupe(capitalizedTerms(words) \o frequentTerms(termFreqKeys(words), words)), 20)

(***************************************************************************)
(* Heuristic card builders.  A builder returns <<>> for null and <<card>>  *)
(* for a card; now is the value Date.now() returns inside the builder.     *)
(***************************************************************************)
\* `card_${Date.now()}_${index}_${suffix}`
CardId(now, index, suffix) ==
    "card_" \o numberText(now) \o "_" \o numberText(index) \o "_" \o suffix

\* findRelevant comparing without toLowerCase
findRelevantCaseSensitive(sentences, term) ==
    LET hits == { i \in 1..Len(sentences) : includes(sentences[i], term) }
    IN IF hits = {} THEN <<>>
       ELSE <<sentences[CHOOSE i \in hits : \A j \in hits : i <= j]>>

\* sentences.find(s => s.toLowerCase().includes(term.toLowerCase())):
\* <<>> for undefined, else the first such sentence
findRelevant(sentences, term) ==
    LET hits == { i \in 1..Len(sentences) :
                    includes(toLowerCase(sentences[i]), toLowerCase(term)) }
    IN IF hits = {} THEN <<>>
       ELSE <<sentences[CHOOSE i \in hits : \A j \in hits : i <= j]>>

generateFillInBlankCard(sentences, index, now) ==
    IF Len(sentences) = 0 THEN <<>>
    ELSE LET sentence == trim(sentences[(index % Len(sentences)) + 1])
             words == splitString(sentence, " ")
         IN IF Len(words) > 5
            THEN LET keyWordIndex == Len(words) \div 2
                     keyWord == stripNonWord(words[keyWordIndex + 1])
                     question == replaceFirst(sentence, words[keyWordIndex + 1], "______")
                 IN << [ id |-> CardId(now, index, "fill"),
                         question |-> "Fill in the blank: " \o question,
                         answer |-> keyWord,
                         difficulty |-> "basic",
                         type |-> "fill_blank" ] >>
            ELSE <<>>

generateDefinitionCard(keyTerms, sentences, index, now) ==
    IF Len(keyTerms) = 0 THEN <<>>
    ELSE LET term == keyTerms[(index % Len(keyTerms)) + 1]
             relevantSentence == findRelevant(sentences, term)
         IN IF relevantSentence # <<>>
            THEN << [ id |-> CardId(now, index, "def"),
                      question |-> "What is " \o term \o "?",
                      answer |-> trim(relevantSentence[1]),
                      difficulty |-> "intermediate",
                      type |-> "definition" ] >>
            ELSE <<>>

generateTrueFalseCard(sentences, index, now) ==
    IF Len(sentences) = 0 THEN <<>>
    ELSE LET sentence == trim(sentences[(index % Len(sentences)) + 1])
         IN << [ id |-> CardId(now, index, "tf"),
                 question |-> "True or False: " \o sentence,
                 answer |-> "True",
                 difficulty |-> "basic",
                 type |-> "true_false" ] >>

\* keyTerms.filter(t => t !== term)
termsOtherThan(keyTerms, term) ==
    selectSeq(keyTerms, { i \in 1..Len(keyTerms) : keyTerms[i] # term })

\* The orders [...].sort(() => Math.random() - 0.5) can leave n elements in:
\* the comparator is inconsistent, so every permutation is a possible outcome.
shuffleOrders(n) == { p \in [1..n -> 1..n] : \A i, j \in 1..n : p[i] = p[j] => i = j }

shuffled(seq, p) == [ i \in 1..Len(seq) |-> seq[p[i]] ]

\* `${choices[k]}` in a template literal: an absent element reads "undefined"
choiceText(choices, k) == IF k < Len(choices) THEN choices[k + 1] ELSE "undefined"

\* `${choices[3] || 'None of the above'}`
lastChoiceText(choices) ==
    IF 3 < Len(choices) /\ choices[4] # "" THEN choices[4] ELSE "None of the above"

\* letterOf counting from "B": String.fromCharCode(66 + n)
letterOfFromB(n) == SubSeq(UpperLetters, n + 2, n + 2)

\* String.fromCharCode(65 + n), for n from -1 (the character before "A")
letterOf(n) == IF n = -1 THEN "@" ELSE SubSeq(UpperLetters, n + 1, n + 1)

multipleChoiceCard(term, relevantSentence, choices, index, now) ==
    [ id |-> CardId(now, index, "mc"),
      question |-> "Which term is described by: \"" \o relevantSentence \o "\"?"
                   \o "\nA) " \o choiceText(choices, 0)
                   \o "\nB) " \o choiceText(choices, 1)
                   \o "\nC) " \o choiceText(choices, 2)
                   \o "\nD) " \o lastChoiceText(choices),
      answer |-> letterOf(arrayIndexOf(choices, term)) \o ") " \o term,
      difficulty |-> "advanced",
      type |-> "multiple_choice" ]

\* The set of results the builder can return: one per outcome of the shuffle.
generateMultipleChoiceCard(sentences, keyTerms, index, now) ==
    IF Len(keyTerms) = 0 \/ Len(sentences) = 0 THEN { <<>> }
    ELSE LET term == keyTerms[(index % Len(keyTerms)) + 1]
             relevantSentence == findRelevant(sentences, term)
         IN IF relevantSentence # <<>>
            THEN LET otherTerms == slice(termsOtherThan(keyTerms, term), 3)
                     unsorted == <<term>> \o otherTerms
                 IN { << multipleChoiceCard(term, relevantSentence[1],
                                            shuffled(unsorted, p), index, now) >> :
                      p \in shuffleOrders(Len(unsorted)) }
            ELSE { <<>> }

(***************************************************************************)
(* Heuristic generation coordinator.                                       *)
(***************************************************************************)
\* questionTypes of generateAdvancedFlashcards; weight is in tenths
heuristicTypes ==
    << [type |-> "fill_blank", weight |-> 3],
       [type |-> "definition", weight |-> 3],
       [type |-> "true_false", weight |-> 2],
       [type |-> "multiple_choice", weight |-> 2] >>

\* typeCountOf giving every archetype the whole target
typeCountWhole(targetCount, questionType) == targetCount

\* Math.ceil(targetCount * questionType.weight)
typeCountOf(targetCount, questionType) == CeilMul(targetCount, questionType.weight, 10)

\* the switch on questionType.type: the results the builder call can return
builderResults(type, sentences, keyTerms, cardCount, now) ==
    CASE type = "fill_blank" -> { generateFillInBlankCard(sentences, cardCount, now) }
      [] type = "definition" -> { generateDefinitionCard(keyTerms, sentences, cardCount, now) }
      [] type = "true_false" -> { generateTrueFalseCard(sentences, cardCount, now) }
      [] type = "multiple_choice" -> generateMultipleChoiceCard(sentences, keyTerms, cardCount, now)

\* if (card) { flashcards.push(card); cardCount++; }, with the builder call
\* recorded in calls (type, cursor passed, whether a card came back)
afterBuilderCall(st, type, card) ==
    [ flashcards |-> st.flashcards \o card,
      cardCount |-> st.cardCount + Len(card),
      calls |-> Append(st.calls, [type |-> type, index |-> st.cardCount, made |-> card # <<>>]) ]

\* The two nested loops, from archetype t (1-based) and inner counter i on:
\* the set of final loop states, one per outcome of the shuffles.
RECURSIVE heuristicLoop(_, _, _, _, _, _, _)
heuristicLoop(sentences, keyTerms, targetCount, now, t, i, st) ==
    IF t > Len(heuristicTypes) THEN { st }
    ELSE IF i < typeCountOf(targetCount, heuristicTypes[t]) /\ st.cardCount < targetCount
    THEN UNION { heuristicLoop(sentences, keyTerms, targetCount, now, t, i + 1,
                               afterBuilderCall(st, heuristicTypes[t].type, card)) :
                 card \in builderResults(heuristicTypes[t].type, sentences, keyTerms,
                                         st.cardCount, now) }
    ELSE heuristicLoop(sentences, keyTerms, targetCount, now, t + 1, 0, st)

\* The runs of generateAdvancedFlashcards(notes, targetCount): the cards it
\* returns and the builder calls it made.
heuristicRuns(notes, targetCount, now) ==
    LET sentences == sentencesOf(notes)
        keyTerms == extractKeyTerms(notes)
        finals == heuristicLoop(sentences, keyTerms, targetCount, now, 1, 0,
                                [flashcards |-> <<>>, cardCount |-> 0, calls |-> <<>>])
    IN { [ flashcards |-> slice(st.flashcards, targetCount), calls |-> st.calls ] :
         st \in finals }

(***************************************************************************)
(* Bounds of the model.                                                    *)
(***************************************************************************)
\* requests the model can hold
NumRequests == 2
\* Date.now() runs from 0 to MaxClock
MaxClock == 1
\* Q/A pairs one AI response holds at most
MaxPairs == 1
\* kv.set calls that fail in one behaviour at most
MaxStoreFailures == 1

(***************************************************************************)
(* Notes the model's requests carry.                                       *)
(***************************************************************************)
\* no usable sentence: target 0
NotesNoSentence == "Too short. Tiny bit."
\* 2 sentences of more than 5 words, key terms Cells and Plants: target 2
NotesTwo ==
    "Cells divide quickly when nutrients are plentiful. Plants need light and water to grow."
\* 5 sentences, the first of 3 words and the others of 7, key terms Nucleus
\* and cells: target 5
NotesShortFirst ==
    "The cells multiply. It has a membrane around the cells. "
    \o "We can see them using many lenses. A plant holds all of the genes. "
    \o "The Nucleus stores the genome for us."

NotesTexts == {NotesNoSentence, NotesTwo, NotesShortFirst}

\* heuristicRuns for the texts of the model's requests, the targets the
\* sizing estimator gives texts of fewer than 100 words, and the clock
\* values, tabulated once
heuristicTable ==
    { [notes |-> n, targetCount |-> t, now |-> c, runs |-> heuristicRuns(n, t, c)] :
      n \in NotesTexts \cup {""}, t \in 0..5, c \in 0..MaxClock }

heuristicRunsOf(notes, targetCount, now) ==
    (CHOOSE e \in heuristicTable :
        e.notes = notes /\ e.targetCount = targetCount /\ e.now = now).runs

\* The card lists generateAdvancedFlashcards(notes, targetCount) can return.
generateAdvancedFlashcards(notes, targetCount, now) ==
    { run.flashcards : run \in heuristicRunsOf(notes, targetCount, now) }

Requests == 1..NumRequests
Users == {"u1"}

(***************************************************************************)
(* Request bodies and AI responses.                                        *)
(***************************************************************************)
\* the JSON value of the body's notes field
StringValue(text) == [type |-> "string", text |-> text]
NumberValue == [type |-> "number", text |-> "42"]
Undefined == [type |-> "undefined", text |-> ""]

NotesInputs ==
    { Undefined, NumberValue, StringValue("") }
    \cup { StringValue(t) : t \in NotesTexts }

\* validNotes without the !notes test: the empty string passes
validNotesTypeOnly(notes) == notes.type = "string"

\* !notes || typeof notes !== 'string' is false
validNotes(notes) == notes.type = "string" /\ notes.text # ""

\* What one fetch of the inference API can come to: the fetch rejects, the
\* status is not OK, the body is no JSON (or null), or the body's generated
\* text holds the given Q:/A: pairs (none when generated_text is absent).
QaPair(k) == [question |-> "question " \o numberText(k), answer |-> "answer " \o numberText(k)]

AiOutcomes ==
    { [kind |-> k, pairs |-> <<>>] : k \in {"transport_error", "not_ok", "malformed"} }
    \cup { [kind |-> "ok", pairs |-> [i \in 1..n |-> QaPair(i)]] : n \in 0..MaxPairs }

(***************************************************************************)
(* AI tier coordinator: its pure parts.                                    *)
(***************************************************************************)
\* questionTypes of generateFlashcardsWithProgress
tierTypes(targetQuestions) ==
    << [type |-> "basic", count |-> CeilMul(targetQuestions, 4, 10), difficulty |-> "basic"],
       [type |-> "intermediate", count |-> CeilMul(targetQuestions, 4, 10),
        difficulty |-> "intermediate"],
       [type |-> "advanced", count |-> FloorMul(targetQuestions, 2, 10),
        difficulty |-> "advanced"] >>

NumTiers == 3

\* parseFlashcards called without its difficulty argument: the default 'basic'
parseFlashcardsDefaultDifficulty(pairs, difficulty, now) ==
    [ index \in 1..Len(pairs) |->
        [ id |-> CardId(now, index - 1, "basic"),
          question |-> pairs[index].question,
          answer |-> pairs[index].answer,
          difficulty |-> "basic",
          type |-> "ai_generated" ] ]

\* parseFlashcards, on the Q:/A: pairs the regular expression finds in the
\* generated text (each already trimmed)
parseFlashcards(pairs, difficulty, now) ==
    [ index \in 1..Len(pairs) |->
        [ id |-> CardId(now, index - 1, difficulty),
          question |-> pairs[index].question,
          answer |-> pairs[index].answer,
          difficulty |-> difficulty,
          type |-> "ai_generated" ] ]

sessionKey(sessionId) == "progress:" \o sessionId

initialProgress(targetQuestions) ==
    [current |-> 0, total |-> targetQuestions, status |-> "generating"]

tierProgress(flashcards, targetQuestions) ==
    [current |-> Len(flashcards), total |-> targetQuestions, status |-> "generating"]

\* finalProgress counting the cards returned, not the cards accumulated
finalProgressOfReturned(flashcards, targetQuestions) ==
    [current |-> Min(Len(flashcards), targetQuestions), total |-> targetQuestions,
     status |-> "completed"]

finalProgress(flashcards, targetQuestions) ==
    [current |-> Len(flashcards), total |-> targetQuestions, status |-> "completed"]

\* backfillTarget without the subtraction
backfillWholeTarget(flashcards, targetQuestions) == targetQuestions

\* targetQuestions - flashcards.length, the target of the backfill
backfillTarget(flashcards, targetQuestions) == targetQuestions - Len(flashcards)

\* coordinatorResult without the slice
coordinatorResultUncut(flashcards, targetQuestions) == flashcards

\* return flashcards.slice(0, targetQuestions)
coordinatorResult(flashcards, targetQuestions) == slice(flashcards, targetQuestions)

\* tierAfterFailure leaving the loop
tierAfterFailureBreak(tier) == NumTiers + 1

\* the tier the loop turns to after a tier that failed (the catch block logs
\* and the for loop goes on)
tierAfterFailure(tier) == tier + 1

(***************************************************************************)
(* The store (kv_store: get, set, getByPrefix).                            *)
(***************************************************************************)
EmptyStore == [ k \in {} |-> <<>> ]

\* the store after a kv.set(key, value) that succeeded
kvSet(store, key, value) ==
    [ k \in (DOMAIN store) \cup {key} |-> IF k = key THEN value ELSE store[k] ]

noteKey(userId, noteId) == "notes:" \o userId \o ":" \o noteId
flashcardKey(userId, id) == "flashcards:" \o userId \o ":" \o id

(***************************************************************************)
(* The flashcard viewer (FlashcardViewer): its pure parts.                 *)
(***************************************************************************)
\* .replace(/[^\w\s]/g, '')
RECURSIVE removePunctuation(_)
removePunctuation(s) ==
    IF Len(s) = 0 THEN ""
    ELSE IF Len(s) = 1 THEN (IF s \in WordChars \cup SpaceChars THEN s ELSE "")
    ELSE removePunctuation(SubSeq(s, 1, Len(s) \div 2))
         \o removePunctuation(SubSeq(s, Len(s) \div 2 + 1, Len(s)))

\* .replace(/\s+/g, ' ') from the i-th character on: every run of whitespace
\* becomes one space
RECURSIVE normalizeWhitespaceFrom(_, _)
normalizeWhitespaceFrom(s, i) ==
    IF i > Len(s) THEN ""
    ELSE (IF SubSeq(s, i, i) \notin SpaceChars THEN SubSeq(s, i, i)
          ELSE IF i > 1 /\ SubSeq(s, i - 1, i - 1) \in SpaceChars THEN ""
          ELSE " ")
         \o normalizeWhitespaceFrom(s, i + 1)

normalizeAnswer(answer) ==
    normalizeWhitespaceFrom(removePunctuation(trim(toLowerCase(answer))), 1)

\* the isCorrect of checkAnswer
isCorrectAnswer(userInput, answer) ==
    LET userAnswer == normalizeAnswer(userInput)
        correctAnswer == normalizeAnswer(answer)
    IN \/ userAnswer = correctAnswer
       \/ includes(correctAnswer, userAnswer)
       \/ includes(userAnswer, correctAnswer)

\* new Map()
EmptyMap == [ k \in {} |-> <<>> ]

\* Map.prototype.set
mapSet(map, key, value) ==
    [ k \in (DOMAIN map) \cup {key} |-> IF k = key THEN value ELSE map[k] ]

\* the value of the showFeedback state when it is null
NoFeedback == "null"

\* cardAttempts.get(index) || { attempts: 0, ... }
attemptOf(cardAttempts, index) ==
    IF index \in DOMAIN cardAttempts THEN cardAttempts[index]
    ELSE [ attempts |-> 0, isCorrect |-> FALSE, userAnswers |-> <<>>, showAnswer |-> FALSE ]

\* the newAttempt of checkAnswer
newAttempt(currentAttempt, userInput, isCorrect) ==
    [ attempts |-> currentAttempt.attempts + 1,
      isCorrect |-> isCorrect,
      userAnswers |-> Append(currentAttempt.userAnswers, userInput),
      showAnswer |-> ~isCorrect /\ currentAttempt.attempts + 1 >= 3 ]

\* the component as it is mounted on a list of cards: the initial useState
\* values and no timer armed
mounted(flashcards) ==
    [ flashcards |-> flashcards,
      currentIndex |-> 0,
      isFlipped |-> FALSE,
      completedCards |-> {},
      userInput |-> "",
      cardAttempts |-> EmptyMap,
      showFeedback |-> NoFeedback,
      timers |-> <<>> ]

(***************************************************************************)
(* State.                                                                  *)
(*   kv                 the key-value store                                *)
(*   clock              the value Date.now() returns                       *)
(*   huggingfaceApiKey  whether HUGGINGFACE_API_KEY is configured          *)
(*   failures           kv.set calls that have failed so far               *)
(*   arrivals           how many generate-flashcards requests arrive       *)
(*   req                per request: the handler's position (pc), its      *)
(*                      locals, its response, and a record of what it did  *)
(*                      (requested, progressLog, aiCards, heuristicTargets,*)
(*                      returned, written, persistFailed)                  *)
(*   viewer             the FlashcardViewer component: its props, its      *)
(*                      useState values and the timers it has armed        *)
(*   applied            the application of one of the server's or the      *)
(*                      client's functions on its own, outside a request:  *)
(*                      its name, its arguments and what it returned       *)
(***************************************************************************)
VARIABLES kv, clock, huggingfaceApiKey, failures, arrivals, req, applied, viewer

vars == <<kv, clock, huggingfaceApiKey, failures, arrivals, req, applied, viewer>>

\* no function has been applied on its own
NotApplied == [fn |-> "none"]

NoResponse == [status |-> 0, error |-> "", flashcards |-> <<>>, totalGenerated |-> 0]

IdleRequest ==
    [ pc |-> "idle",
      notes |-> Undefined, userId |-> "",
      sized |-> FALSE, targetQuestions |-> 0,
      inTry |-> FALSE,
      sessionId |-> "", tier |-> 0, flashcards |-> <<>>,
      timestamp |-> 0, noteId |-> "", i |-> 0, savedFlashcards |-> <<>>,
      response |-> NoResponse,
      requested |-> <<>>, progressLog |-> <<>>, aiCards |-> <<>>,
      heuristicTargets |-> <<>>, returned |-> <<>>,
      written |-> <<>>, persistFailed |-> FALSE ]

InitWith(n) ==
    /\ kv = EmptyStore
    /\ clock = 0
    /\ huggingfaceApiKey \in BOOLEAN
    /\ failures = 0
    /\ arrivals = n
    /\ req = [ r \in Requests |-> IdleRequest ]
    /\ applied = NotApplied
    /\ viewer = mounted(<<>>)

\* one request at a time
Init == InitWith(1)

(***************************************************************************)
(* The generate-flashcards route: what follows an await is one action.     *)
(***************************************************************************)
\* c.json({ error: ... }, status)
errorResponse(status, error) ==
    [status |-> status, error |-> error, flashcards |-> <<>>, totalGenerated |-> 0]

\* c.json({ flashcards: savedFlashcards, totalGenerated: flashcards.length })
okResponse(savedFlashcards, flashcards) ==
    [status |-> 200, error |-> "", flashcards |-> savedFlashcards,
     totalGenerated |-> Len(flashcards)]

\* the call saveFlashcards(flashcards, userId, notes) up to its first await
enterSave(rec, flashcards, now) ==
    [ rec EXCEPT !.pc = "save_note", !.flashcards = flashcards, !.timestamp = now,
                 !.noteId = "note_" \o numberText(now), !.i = 0,
                 !.savedFlashcards = <<>> ]

\* catch (error) of the route: the generic failure
outerCatch(rec) ==
    [ rec EXCEPT !.pc = "done",
                 !.response = errorResponse(500, "Failed to generate flashcards") ]

\* catchAiError passing the error on to the route's catch (error)
catchAiErrorRethrow(rec, now) == { outerCatch(rec) }

\* catch (aiError): the heuristic coordinator runs and its cards are saved
catchAiError(rec, now) ==
    { enterSave([rec EXCEPT !.inTry = FALSE], cards, now) :
      cards \in generateAdvancedFlashcards(rec.notes.text, rec.targetQuestions, now) }

\* an exception raised where the handler stands: inside the inner try it
\* reaches catch (aiError), elsewhere the route's catch (error)
thrown(rec, now) == IF rec.inTry THEN catchAiError(rec, now) ELSE { outerCatch(rec) }

\* Start without the test of the API key: the AI tier coordinator is
\* entered whether the key is configured or not
StartIgnoringKey(r) ==
    /\ req[r].pc = "idle"
    /\ r <= arrivals
    /\ \E notes \in NotesInputs, userId \in Users :
         LET rec == [req[r] EXCEPT !.notes = notes, !.userId = userId]
             sized == [rec EXCEPT !.sized = TRUE,
                                  !.targetQuestions = calculateQuestionCount(notes.text)]
         IN IF ~validNotes(notes)
            THEN req' = [req EXCEPT ![r] =
                           [rec EXCEPT !.pc = "done",
                                       !.response = errorResponse(400,
                                           "Notes are required and must be a string")]]
            ELSE req' = [req EXCEPT ![r] =
                           [sized EXCEPT !.pc = "progress_init", !.inTry = TRUE,
                                         !.sessionId = "session_" \o numberText(clock),
                                         !.flashcards = <<>>]]
    /\ UNCHANGED <<kv, clock, huggingfaceApiKey, viewer, failures, arrivals, applied>>

\* the body parsed, the notes validated, the target computed and, by the
\* API key, the heuristic coordinator run or the AI tier coordinator entered
Start(r) ==
    /\ req[r].pc = "idle"
    /\ r <= arrivals
    /\ \E notes \in NotesInputs, userId \in Users :
         LET rec == [req[r] EXCEPT !.notes = notes, !.userId = userId]
             sized == [rec EXCEPT !.sized = TRUE,
                                  !.targetQuestions = calculateQuestionCount(notes.text)]
         IN IF ~validNotes(notes)
            THEN req' = [req EXCEPT ![r] =
                           [rec EXCEPT !.pc = "done",
                                       !.response = errorResponse(400,
                                           "Notes are required and must be a string")]]
            ELSE IF ~huggingfaceApiKey
            THEN \E cards \in generateAdvancedFlashcards(notes.text, sized.targetQuestions, clock) :
                   req' = [req EXCEPT ![r] = enterSave(sized, cards, clock)]
            ELSE req' = [req EXCEPT ![r] =
                           [sized EXCEPT !.pc = "progress_init", !.inTry = TRUE,
                                         !.sessionId = "session_" \o numberText(clock),
                                         !.flashcards = <<>>]]
    /\ UNCHANGED <<kv, clock, huggingfaceApiKey, viewer, failures, arrivals, applied>>

\* a kv.set that throws
StoreFails ==
    /\ failures < MaxStoreFailures
    /\ failures' = failures + 1
    /\ UNCHANGED kv

\* a kv.set(key, value) that succeeds
StoreWrites(key, value) ==
    /\ kv' = kvSet(kv, key, value)
    /\ UNCHANGED failures

\* the progress record written, added to the run's log
logged(rec, progress) == [rec EXCEPT !.progressLog = Append(@, progress)]

\* await kv.set(progress, { current: 0, ... }): the initial progress
ProgressInit(r) ==
    /\ req[r].pc = "progress_init"
    /\ \/ /\ StoreWrites(sessionKey(req[r].sessionId), initialProgress(req[r].targetQuestions))
          /\ req' = [req EXCEPT ![r] =
                       [logged(req[r], initialProgress(req[r].targetQuestions))
                          EXCEPT !.pc = "request", !.tier = 1]]
       \/ /\ StoreFails
          /\ \E next \in thrown(req[r], clock) : req' = [req EXCEPT ![r] = next]
    /\ UNCHANGED <<clock, huggingfaceApiKey, viewer, arrivals, applied>>

\* createPromptForDifficulty and fetch: the tier's request is sent
SendRequest(r) ==
    /\ req[r].pc = "request"
    /\ req' = [req EXCEPT ![r] =
                 [req[r] EXCEPT !.pc = "await_response",
                                !.requested = Append(@, tierTypes(req[r].targetQuestions)[req[r].tier].type)]]
    /\ UNCHANGED <<kv, clock, huggingfaceApiKey, viewer, failures, arrivals, applied>>

\* after the for loop: the backfill by the heuristic coordinator when the
\* tiers gave fewer cards than the target
afterLoop(rec, now) ==
    IF Len(rec.flashcards) < rec.targetQuestions
    THEN { [rec EXCEPT !.pc = "progress_final",
                       !.aiCards = rec.flashcards,
                       !.flashcards = @ \o additionalCards,
                       !.heuristicTargets =
                           Append(@, backfillTarget(rec.flashcards, rec.targetQuestions))] :
           additionalCards \in
               generateAdvancedFlashcards(rec.notes.text,
                   backfillTarget(rec.flashcards, rec.targetQuestions), now) }
    ELSE { [rec EXCEPT !.pc = "progress_final", !.aiCards = rec.flashcards] }

\* the for loop goes on with tier next, or ends
continueLoop(rec, next, now) ==
    IF next <= NumTiers
    THEN { [rec EXCEPT !.pc = "request", !.tier = next] }
    ELSE afterLoop(rec, now)

\* the fetch settles: a rejected fetch or a body that does not parse is
\* caught and logged, a status that is not OK is passed over, and an OK body
\* is parsed into cards
Response(r) ==
    /\ req[r].pc = "await_response"
    /\ \E outcome \in AiOutcomes :
         IF outcome.kind = "ok"
         THEN req' = [req EXCEPT ![r] =
                        [req[r] EXCEPT !.pc = "progress_tier",
                                       !.flashcards = @ \o parseFlashcards(outcome.pairs,
                                           tierTypes(req[r].targetQuestions)[req[r].tier].difficulty,
                                           clock)]]
         ELSE \E next \in continueLoop(req[r], tierAfterFailure(req[r].tier), clock) :
                req' = [req EXCEPT ![r] = next]
    /\ UNCHANGED <<kv, clock, huggingfaceApiKey, viewer, failures, arrivals, applied>>

\* await kv.set(progress, { current: flashcards.length, ... }) inside the
\* tier's try: a failure of the write is caught by the tier's catch
ProgressTier(r) ==
    /\ req[r].pc = "progress_tier"
    /\ \/ /\ StoreWrites(sessionKey(req[r].sessionId),
                         tierProgress(req[r].flashcards, req[r].targetQuestions))
          /\ \E next \in continueLoop(
                    logged(req[r], tierProgress(req[r].flashcards, req[r].targetQuestions)),
                    req[r].tier + 1, clock) :
               req' = [req EXCEPT ![r] = next]
       \/ /\ StoreFails
          /\ \E next \in continueLoop(req[r], tierAfterFailure(req[r].tier), clock) :
               req' = [req EXCEPT ![r] = next]
    /\ UNCHANGED <<clock, huggingfaceApiKey, viewer, arrivals, applied>>

\* the final progress update and the coordinator's return; the route then
\* calls saveFlashcards with what was returned
ProgressFinal(r) ==
    /\ req[r].pc = "progress_final"
    /\ \/ /\ StoreWrites(sessionKey(req[r].sessionId),
                         finalProgress(req[r].flashcards, req[r].targetQuestions))
          /\ LET result == coordinatorResult(req[r].flashcards, req[r].targetQuestions)
                 rec == [logged(req[r], finalProgress(req[r].flashcards, req[r].targetQuestions))
                           EXCEPT !.returned = <<result>>]
             IN req' = [req EXCEPT ![r] = enterSave(rec, result, clock)]
       \/ /\ StoreFails
          /\ \E next \in thrown(req[r], clock) : req' = [req EXCEPT ![r] = next]
    /\ UNCHANGED <<clock, huggingfaceApiKey, viewer, arrivals, applied>>

\* saveFlashcards returns and the route answers
respond(rec) ==
    [rec EXCEPT !.pc = "done", !.response = okResponse(rec.savedFlashcards, rec.flashcards)]

\* after a write of saveFlashcards: the loop over the cards goes on, or ends
afterSave(rec) == IF rec.i < Len(rec.flashcards) THEN [rec EXCEPT !.pc = "save_card"]
                  ELSE respond(rec)

\* SaveNote going on to the cards without the note written
SaveNoteUnwritten(r) ==
    /\ req[r].pc = "save_note"
    /\ req' = [req EXCEPT ![r] = afterSave(req[r])]
    /\ UNCHANGED <<kv, failures, clock, huggingfaceApiKey, viewer, arrivals, applied>>

\* await kv.set(`notes:${userId}:${noteId}`, ...): the original notes
SaveNote(r) ==
    /\ req[r].pc = "save_note"
    /\ LET key == noteKey(req[r].userId, req[r].noteId)
           value == [id |-> req[r].noteId, content |-> req[r].notes.text,
                     createdAt |-> req[r].timestamp]
       IN \/ /\ StoreWrites(key, value)
             /\ req' = [req EXCEPT ![r] =
                          afterSave([req[r] EXCEPT !.written = Append(@, [key |-> key, value |-> value])])]
          \/ /\ StoreFails
             /\ \E next \in thrown([req[r] EXCEPT !.persistFailed = TRUE], clock) :
                  req' = [req EXCEPT ![r] = next]
    /\ UNCHANGED <<clock, huggingfaceApiKey, viewer, arrivals, applied>>

\* { ...flashcards[i], userId, noteId, createdAt: timestamp }
savedCard(card, userId, noteId, timestamp) ==
    [ id |-> card.id, question |-> card.question, answer |-> card.answer,
      difficulty |-> card.difficulty, type |-> card.type,
      userId |-> userId, noteId |-> noteId, createdAt |-> timestamp ]

\* await kv.set(`flashcards:${userId}:${flashcard.id}`, flashcard): card i
SaveCard(r) ==
    /\ req[r].pc = "save_card"
    /\ LET flashcard == savedCard(req[r].flashcards[req[r].i + 1], req[r].userId,
                                  req[r].noteId, req[r].timestamp)
           key == flashcardKey(req[r].userId, flashcard.id)
       IN \/ /\ StoreWrites(key, flashcard)
             /\ req' = [req EXCEPT ![r] =
                          afterSave([req[r] EXCEPT !.written = Append(@, [key |-> key, value |-> flashcard]),
                                                   !.savedFlashcards = Append(@, flashcard),
                                                   !.i = @ + 1])]
          \/ /\ StoreFails
             /\ \E next \in thrown([req[r] EXCEPT !.persistFailed = TRUE], clock) :
                  req' = [req EXCEPT ![r] = next]
    /\ UNCHANGED <<clock, huggingfaceApiKey, viewer, arrivals, applied>>

\* time passes
Tick ==
    /\ clock < MaxClock
    /\ clock' = clock + 1
    /\ UNCHANGED <<kv, huggingfaceApiKey, viewer, failures, arrivals, req, applied>>

Next ==
    \/ \E r \in Requests :
         \/ Start(r)
         \/ ProgressInit(r)
         \/ SendRequest(r)
         \/ Response(r)
         \/ ProgressTier(r)
         \/ ProgressFinal(r)
         \/ SaveNote(r)
         \/ SaveCard(r)
    \/ Tick

Spec == Init /\ [][Next]_vars

(***************************************************************************)
(* The functions applied on their own.  No request arrives; one function   *)
(* is applied once to arguments drawn from the sets below and applied      *)
(* records the application.                                                *)
(***************************************************************************)
\* the cursor a builder is called with runs from 0 to MaxCursor
MaxCursor == 3
\* word counts run from 1 (split leaves at least one piece) to MaxWordCount
MaxWordCount == 601
\* sentence counts run from 0 to MaxSentenceCount
MaxSentenceCount == 76
\* the targets generateAdvancedFlashcards is called with run from 0 to MaxTarget
MaxTarget == 5

\* a sentence of 7 words whose middle word "at" also occurs inside the
\* earlier word "cat", and a sentence of exactly 5 words
NotesEarlierOccurrence == "A cat ran at a big dog. Plants need light and water."
\* a sentence of 7 words whose middle word holds an apostrophe, and a
\* sentence of 6 words
NotesApostrophe == "We know that it's never too late. Roots take up water and salts."

\* one sentence with 1, 3, 4 and 5 capitalized key terms
NotesOneTerm == "Mitosis is how a cell splits in two."
NotesThreeTerms == "Cells hold Nucleus and Plasma inside them."
NotesFourTerms == "Cells hold Nucleus and Plasma with Golgi inside."
NotesFiveTerms == "Cells hold Nucleus and Plasma with Golgi near Vacuole inside them."

\* two sentences and no key term
NotesNoTerms == "the cat sat on a mat all day long. it was a good day for us all."

\* the key term Tiny stands in a piece too short to be a sentence
NotesTermOutside == "Tiny bit. the cat sat on a mat all day long."
\* key terms Cells and cells; the first sentence holds the term in lower case
NotesCaseTerm == "The cells are small units. Cells divide quickly in there."

FunctionTexts ==
    NotesTexts \cup {"", NotesEarlierOccurrence, NotesApostrophe, NotesNoTerms,
                     NotesTermOutside, NotesCaseTerm,
                     NotesOneTerm, NotesThreeTerms, NotesFourTerms, NotesFiveTerms}

\* the sentence lists generateAdvancedFlashcards hands to the builders
SentenceLists == { sentencesOf(text) : text \in FunctionTexts }

InitFunctions ==
    /\ kv = EmptyStore
    /\ clock = 0
    /\ huggingfaceApiKey = FALSE
    /\ failures = 0
    /\ arrivals = 0
    /\ req = [ r \in Requests |-> IdleRequest ]
    /\ applied = NotApplied
    /\ viewer = mounted(<<>>)

\* generateFillInBlankCard(sentences, index)
ApplyFillInBlank ==
    /\ applied = NotApplied
    /\ \E sentences \in SentenceLists, index \in 0..MaxCursor :
         applied' = [ fn |-> "generateFillInBlankCard",
                      sentences |-> sentences, index |-> index,
                      result |-> generateFillInBlankCard(sentences, index, clock) ]
    /\ UNCHANGED <<kv, clock, huggingfaceApiKey, viewer, failures, arrivals, req>>

\* generateDefinitionCard(keyTerms, sentences, index) on the key terms and
\* the sentences generateAdvancedFlashcards draws from one text
ApplyDefinition ==
    /\ applied = NotApplied
    /\ \E text \in FunctionTexts, index \in 0..MaxCursor :
         applied' = [ fn |-> "generateDefinitionCard",
                      keyTerms |-> extractKeyTerms(text),
                      sentences |-> sentencesOf(text),
                      index |-> index,
                      result |-> generateDefinitionCard(extractKeyTerms(text),
                                                        sentencesOf(text), index, clock) ]
    /\ UNCHANGED <<kv, clock, huggingfaceApiKey, viewer, failures, arrivals, req>>

\* generateMultipleChoiceCard(sentences, keyTerms, index) on the sentences
\* and the key terms generateAdvancedFlashcards draws from one text
ApplyMultipleChoice ==
    /\ applied = NotApplied
    /\ \E text \in FunctionTexts, index \in 0..MaxCursor :
         \E result \in generateMultipleChoiceCard(sentencesOf(text), extractKeyTerms(text),
                                                  index, clock) :
           applied' = [ fn |-> "generateMultipleChoiceCard",
                        sentences |-> sentencesOf(text),
                        keyTerms |-> extractKeyTerms(text),
                        index |-> index, result |-> result ]
    /\ UNCHANGED <<kv, clock, huggingfaceApiKey, viewer, failures, arrivals, req>>

\* the three copies of the sizing function on one pair of counts
ApplySizing ==
    /\ applied = NotApplied
    /\ \E wordCount \in 1..MaxWordCount, sentenceCount \in 0..MaxSentenceCount :
         applied' = [ fn |-> "calculateQuestionCount",
                      wordCount |-> wordCount, sentenceCount |-> sentenceCount,
                      result |-> questionCountFor(wordCount, sentenceCount),
                      estimate |-> estimatedQuestionsFor(wordCount, sentenceCount),
                      inline |-> calculatedTargetFor(wordCount, sentenceCount) ]
    /\ UNCHANGED <<kv, clock, huggingfaceApiKey, viewer, failures, arrivals, req>>

\* the three copies on one text of notes
ApplySizingToNotes ==
    /\ applied = NotApplied
    /\ \E notes \in FunctionTexts \ {""} :
         applied' = [ fn |-> "calculateQuestionCount(notes)",
                      notes |-> notes,
                      result |-> calculateQuestionCount(notes),
                      estimate |-> estimatedQuestions(notes),
                      inline |-> calculatedTarget(notes) ]
    /\ UNCHANGED <<kv, clock, huggingfaceApiKey, viewer, failures, arrivals, req>>

\* an optional count argument that holds the number n
CountValue(n) == [type |-> "number", value |-> n]

\* the customCount of handleGenerate: none for the Generate button, 10, 20
\* or 30 for the quick-generate buttons
CustomCounts == {Undefined} \cup { CountValue(n) : n \in {10, 20, 30} }

\* handleGenerate: customCount || estimatedQuestions, the count the client
\* shows while generating and hands to onGenerate
handleGenerate(customCount, notes) ==
    IF customCount.type = "number" /\ customCount.value # 0
    THEN customCount.value
    ELSE estimatedQuestions(notes)

\* generateFlashcards(targetCount): calculatedTarget, the targetCount of the
\* request body
sentTargetCount(notes, targetCount) ==
    IF targetCount # 0 THEN targetCount ELSE calculatedTarget(notes)

\* generateFlashcards(targetCount): calculatedTarget || 10, the total of the
\* generation progress
progressTotal(notes, targetCount) ==
    IF sentTargetCount(notes, targetCount) # 0
    THEN sentTargetCount(notes, targetCount)
    ELSE 10

\* a generate button is pressed on the client and the route sizes the notes
\* of the request it receives
ApplyGenerate ==
    /\ applied = NotApplied
    /\ \E notes \in { t \in FunctionTexts : trim(t) # "" }, customCount \in CustomCounts :
         applied' = [ fn |-> "handleGenerate",
                      notes |-> notes,
                      customCount |-> customCount,
                      targetQuestionCount |-> handleGenerate(customCount, notes),
                      total |-> progressTotal(notes, handleGenerate(customCount, notes)),
                      targetCount |-> sentTargetCount(notes, handleGenerate(customCount, notes)),
                      targetQuestions |-> calculateQuestionCount(notes) ]
    /\ UNCHANGED <<kv, clock, huggingfaceApiKey, viewer, failures, arrivals, req>>

\* generateAdvancedFlashcards(notes, targetCount), with its builder calls
ApplyHeuristic ==
    /\ applied = NotApplied
    /\ \E notes \in FunctionTexts, targetCount \in 0..MaxTarget :
         \E run \in heuristicRuns(notes, targetCount, clock) :
           applied' = [ fn |-> "generateAdvancedFlashcards",
                        notes |-> notes,
                        sentences |-> sentencesOf(notes),
                        keyTerms |-> extractKeyTerms(notes),
                        targetCount |-> targetCount,
                        flashcards |-> run.flashcards,
                        calls |-> run.calls ]
    /\ UNCHANGED <<kv, clock, huggingfaceApiKey, viewer, failures, arrivals, req>>

NextFunctions ==
    \/ ApplySizing
    \/ ApplyHeuristic
    \/ ApplySizingToNotes
    \/ ApplyFillInBlank
    \/ ApplyDefinition
    \/ ApplyMultipleChoice
    \/ ApplyGenerate

SpecFunctions == InitFunctions /\ [][NextFunctions]_vars

(***************************************************************************)
(* Concurrent generate calls: NumRequests requests of one user are handled *)
(* at once, their awaits interleaving.  To keep the interleavings          *)
(* enumerable every request carries the same notes, every tier is answered *)
(* with an OK status and no store write fails.                             *)
(***************************************************************************)
InitConcurrent ==
    /\ kv = EmptyStore
    /\ clock = 0
    /\ huggingfaceApiKey \in BOOLEAN
    /\ failures = MaxStoreFailures
    /\ arrivals = NumRequests
    /\ req = [ r \in Requests |-> IdleRequest ]
    /\ applied = NotApplied
    /\ viewer = mounted(<<>>)

ConcurrentStart(r) == Start(r) /\ req'[r].notes = StringValue(NotesTwo)

ConcurrentResponse(r) == Response(r) /\ req'[r].pc = "progress_tier"

NextConcurrent ==
    \/ \E r \in Requests :
         \/ ConcurrentStart(r)
         \/ ProgressInit(r)
         \/ SendRequest(r)
         \/ ConcurrentResponse(r)
         \/ ProgressTier(r)
         \/ ProgressFinal(r)
         \/ SaveNote(r)
         \/ SaveCard(r)
    \/ Tick

SpecConcurrent == InitConcurrent /\ [][NextConcurrent]_vars

(***************************************************************************)
(* The flashcard viewer.  A user event or a timer callback, with the       *)
(* render and the effect that follow it, is one action.  A handler can run *)
(* only while the control it is bound to is rendered and enabled.          *)
(***************************************************************************)
\* the most timers pending at once
MaxTimers == 2

OneCard == << [id |-> "card_0", question |-> "What is the unit of life?", answer |-> "Cell"] >>

ThreeCards ==
    << [id |-> "card_0", question |-> "What is the unit of life?", answer |-> "Cell"],
       [id |-> "card_1", question |-> "What is the unit of matter?", answer |-> "Atom"],
       [id |-> "card_2", question |-> "What carries charge?", answer |-> "Ion"] >>

\* the flashcards prop
FlashcardLists == {OneCard, ThreeCards}

\* what the user types into the answer field
AnswerInputs == {"cell.", "Atom", " "}

InitViewer ==
    /\ kv = EmptyStore
    /\ clock = 0
    /\ huggingfaceApiKey = FALSE
    /\ failures = 0
    /\ arrivals = 0
    /\ req = [ r \in Requests |-> IdleRequest ]
    /\ applied = NotApplied
    /\ \E flashcards \in FlashcardLists : viewer = mounted(flashcards)

currentCard == viewer.flashcards[viewer.currentIndex + 1]

currentAttempt == attemptOf(viewer.cardAttempts, viewer.currentIndex)

\* setCurrentIndex(index) and the effect on [currentIndex], which runs when
\* the index has changed
setCurrentIndex(v, index) ==
    IF index = v.currentIndex THEN v
    ELSE [ v EXCEPT !.currentIndex = index,
                    !.userInput = "",
                    !.showFeedback = NoFeedback,
                    !.isFlipped = FALSE ]

nextCard(v) == setCurrentIndex(v, (v.currentIndex + 1) % Len(v.flashcards))

prevCard(v) ==
    setCurrentIndex(v, (v.currentIndex - 1 + Len(v.flashcards)) % Len(v.flashcards))

\* setTimeout(callback, delay); armedOn records the card that was shown when
\* the timer was armed
setTimeout(v, callback, delay) ==
    [ v EXCEPT !.timers = Append(@, [ callback |-> callback, delay |-> delay,
                                      armedOn |-> v.currentIndex ]) ]

\* the Answer Input Section rendered whatever the showAnswer flag is
answerInputShownUnlessCompleted ==
    /\ ~viewer.isFlipped
    /\ viewer.currentIndex \notin viewer.completedCards

\* the Answer Input Section is rendered
answerInputShown ==
    /\ ~viewer.isFlipped
    /\ viewer.currentIndex \notin viewer.completedCards
    /\ ~currentAttempt.showAnswer

\* the Reveal Answer Option is rendered
revealOffered ==
    /\ ~viewer.isFlipped
    /\ currentAttempt.attempts >= 3
    /\ ~currentAttempt.isCorrect
    /\ ~currentAttempt.showAnswer

\* the flip button is rendered
flipShown ==
    \/ viewer.isFlipped
    \/ viewer.currentIndex \in viewer.completedCards
    \/ currentAttempt.showAnswer

unchangedServer == UNCHANGED <<kv, clock, huggingfaceApiKey, failures, arrivals, req, applied>>

\* onChange of the answer field
setUserInput ==
    /\ answerInputShown
    /\ viewer.showFeedback = NoFeedback
    /\ \E text \in AnswerInputs : viewer' = [ viewer EXCEPT !.userInput = text ]
    /\ unchangedServer

\* the Check button or the Enter key
checkAnswer ==
    /\ answerInputShown
    /\ viewer.showFeedback = NoFeedback
    /\ trim(viewer.userInput) # ""
    /\ Len(viewer.timers) < MaxTimers
    /\ LET isCorrect == isCorrectAnswer(viewer.userInput, currentCard.answer)
           attempt == newAttempt(currentAttempt, viewer.userInput, isCorrect)
           checked == [ viewer EXCEPT
                          !.cardAttempts = mapSet(@, viewer.currentIndex, attempt),
                          !.showFeedback = IF isCorrect THEN "correct" ELSE "incorrect" ]
       IN viewer' =
            IF isCorrect
            THEN setTimeout([ checked EXCEPT !.completedCards = @ \cup {viewer.currentIndex} ],
                            "nextCard", 1500)
            ELSE IF attempt.attempts >= 3
            THEN setTimeout(checked, "clearFeedback", 2000)
            ELSE setTimeout(checked, "clearInput", 1500)
    /\ unchangedServer

\* the Reveal Answer button
revealAnswer ==
    /\ revealOffered
    /\ viewer' = [ viewer EXCEPT
                     !.isFlipped = TRUE,
                     !.cardAttempts = mapSet(@, viewer.currentIndex,
                                             [ currentAttempt EXCEPT !.showAnswer = TRUE ]) ]
    /\ unchangedServer

\* the Next button
ClickNext ==
    /\ Len(viewer.flashcards) > 1
    /\ viewer' = nextCard(viewer)
    /\ unchangedServer

\* the Previous button
ClickPrevious ==
    /\ Len(viewer.flashcards) > 1
    /\ viewer' = prevCard(viewer)
    /\ unchangedServer

flipCard ==
    /\ Len(viewer.flashcards) > 0
    /\ flipShown
    /\ viewer' = [ viewer EXCEPT !.isFlipped = ~viewer.isFlipped ]
    /\ unchangedServer

\* the Mark as Learned button
markAsCompleted ==
    /\ viewer.isFlipped
    /\ viewer.currentIndex \notin viewer.completedCards
    /\ Len(viewer.timers) < MaxTimers
    /\ viewer' = setTimeout([ viewer EXCEPT !.completedCards = @ \cup {viewer.currentIndex} ],
                            "nextCard", 500)
    /\ unchangedServer

\* the Reset All Progress button
resetProgress ==
    /\ viewer.completedCards # {} \/ DOMAIN viewer.cardAttempts # {}
    /\ viewer' = [ viewer EXCEPT !.completedCards = {},
                                 !.cardAttempts = EmptyMap,
                                 !.currentIndex = 0,
                                 !.isFlipped = FALSE,
                                 !.userInput = "",
                                 !.showFeedback = NoFeedback ]
    /\ unchangedServer

\* timer k can be the next to fire: no timer armed before it has a delay
\* that is no longer than its own
canFire(k) ==
    \A j \in 1..(k - 1) : viewer.timers[j].delay > viewer.timers[k].delay

\* what the callback of a timer does
called(v, callback) ==
    CASE callback = "nextCard" -> nextCard(v)
      [] callback = "clearFeedback" -> [ v EXCEPT !.showFeedback = NoFeedback ]
      [] callback = "clearInput" -> [ v EXCEPT !.userInput = "", !.showFeedback = NoFeedback ]

\* the component after timer k has fired
fired(k) ==
    called([ viewer EXCEPT !.timers = SubSeq(@, 1, k - 1) \o SubSeq(@, k + 1, Len(@)) ],
           viewer.timers[k].callback)

\* a pending timer fires; no handler ever clears one
TimerFires ==
    /\ \E k \in 1..Len(viewer.timers) : canFire(k) /\ viewer' = fired(k)
    /\ unchangedServer

\* revealAnswer is left out: its button is never rendered
NextViewer ==
    \/ setUserInput
    \/ checkAnswer
    \/ ClickNext
    \/ ClickPrevious
    \/ flipCard
    \/ markAsCompleted
    \/ resetProgress
    \/ TimerFires

SpecViewer == InitViewer /\ [][NextViewer]_vars

(***************************************************************************)
(* Properties.                                                             *)
(***************************************************************************)
Done(r) == req[r].pc = "done"

\* the request took the AI path: generateFlashcardsWithProgress was entered
EnteredCoordinator(r) == req[r].sessionId # ""

\* generateFlashcardsWithProgress is running: between its entry and its
\* return or raise
InCoordinator(r) ==
    req[r].pc \in {"progress_init", "request", "await_response", "progress_tier",
                   "progress_final"}

\* generateFlashcardsWithProgress has returned
Returned(r) == req[r].returned # <<>>

AllTiers == <<"basic", "intermediate", "advanced">>

\* notes that are empty or not a string
InvalidInput(notes) == notes.type # "string" \/ notes.text = ""

IsPrefix(a, b) == Len(a) <= Len(b) /\ a = SubSeq(b, 1, Len(a))

Last(seq) == seq[Len(seq)]

\* C1: when the AI tier coordinator returns, the last progress record it
\* wrote has status completed and current equal to the number of cards it
\* returns, whatever the tiers came to.
C1_TerminalProgressIsReturnedCount ==
    \A r \in Requests :
        Returned(r) =>
            /\ Last(req[r].progressLog).status = "completed"
            /\ Last(req[r].progressLog).current = Len(req[r].returned[1])

\* C2: within one run of the AI tier coordinator the progress records written
\* under the session key have non-decreasing current, from the initial record
\* (current 0) to the terminal one.
C2_ProgressNonDecreasing ==
    \A r \in Requests :
        LET log == req[r].progressLog
        IN /\ log # <<>> => log[1] = initialProgress(req[r].targetQuestions)
           /\ \A i \in 1..(Len(log) - 1) : log[i].current <= log[i + 1].current
           /\ Returned(r) => Last(log).status = "completed"

\* a run that returned after a tier gave cards and a later tier failed
C2_Witness ==
    \E r \in Requests :
        /\ Returned(r)
        /\ Len(req[r].progressLog) \in 3..4
        /\ \E i \in 1..(Len(req[r].progressLog) - 1) :
             req[r].progressLog[i].current < req[r].progressLog[i + 1].current

\* C3: a successful generate call returns at most target cards: the heuristic
\* coordinator called with T returns at most T, the AI tier coordinator
\* called with T returns at most T, and totalGenerated never exceeds T.
C3_AtMostTarget ==
    /\ \A e \in heuristicTable : \A run \in e.runs : Len(run.flashcards) <= e.targetCount
    /\ \A r \in Requests :
        /\ Returned(r) => Len(req[r].returned[1]) <= req[r].targetQuestions
        /\ (Done(r) /\ req[r].response.status = 200) =>
              /\ Len(req[r].response.flashcards) <= req[r].targetQuestions
              /\ req[r].response.totalGenerated <= req[r].targetQuestions

\* a successful call whose tiers gave more cards than the target
C3_Witness ==
    \E r \in Requests :
        /\ Done(r) /\ req[r].response.status = 200
        /\ Returned(r) /\ req[r].inTry
        /\ Len(req[r].aiCards) > req[r].targetQuestions
        /\ req[r].targetQuestions > 0

\* C4 as stated: every run of the AI tier coordinator, once over, has sent
\* exactly the requests basic, intermediate, advanced.
C4_EveryRunRequestsAllTiers ==
    \A r \in Requests :
        (EnteredCoordinator(r) /\ ~InCoordinator(r)) => req[r].requested = AllTiers

\* C4 amended: the requests of a run are always a prefix of basic,
\* intermediate, advanced, one at a time (a tier's request is sent when the
\* tiers before it have been handled, and never again), and a run whose
\* initial progress write succeeded has sent all three when its loop is over,
\* whichever tiers failed.
C4_RunPastInitRequestsAllTiers ==
    \A r \in Requests :
        /\ IsPrefix(req[r].requested, AllTiers)
        /\ req[r].pc = "request" => Len(req[r].requested) = req[r].tier - 1
        /\ req[r].pc \in {"await_response", "progress_tier"} =>
              Len(req[r].requested) = req[r].tier
        /\ (EnteredCoordinator(r) /\ req[r].progressLog # <<>>
              /\ req[r].pc \notin {"progress_init", "request", "await_response", "progress_tier"})
           => req[r].requested = AllTiers

\* a run that returned although all three tiers failed
C4_Witness ==
    \E r \in Requests :
        /\ Returned(r)
        /\ Len(req[r].progressLog) = 2
        /\ req[r].aiCards = <<>>
        /\ req[r].requested = AllTiers

\* C5: for valid notes and every outcome of the AI service (tiers failing,
\* the coordinator raising) the call answers with a normal success as long as
\* no write of saveFlashcards fails.
C5_AiFailureNeverSurfaces ==
    \A r \in Requests :
        (Done(r) /\ ~InvalidInput(req[r].notes) /\ ~req[r].persistFailed) =>
            /\ req[r].response.status = 200
            /\ req[r].response.error = ""

\* a success after the coordinator raised and the route fell back
C5_Witness ==
    \E r \in Requests :
        /\ Done(r) /\ req[r].response.status = 200
        /\ EnteredCoordinator(r) /\ ~Returned(r)
        /\ ~req[r].persistFailed
        /\ req[r].response.totalGenerated > 0

\* C6: whenever a write of saveFlashcards fails, the call ends with the
\* generic error, on the heuristic path and on the AI path alike.
C6_PersistenceFailureSurfaces ==
    \A r \in Requests :
        (Done(r) /\ req[r].persistFailed) => req[r].response.status = 500

\* C7: a call with empty or non-string notes fails with the invalid-input
\* error and writes nothing: no NoteRecord, no flashcard, no progress record,
\* no target computed, no AI request.
C7_InvalidNotesRejected ==
    \A r \in Requests :
        (req[r].pc # "idle" /\ InvalidInput(req[r].notes)) =>
            /\ Done(r)
            /\ req[r].response = errorResponse(400, "Notes are required and must be a string")
            /\ ~req[r].sized
            /\ req[r].written = <<>>
            /\ req[r].progressLog = <<>>
            /\ req[r].requested = <<>>
            /\ arrivals = 1 => kv = EmptyStore

\* a rejected call whose notes are the empty string
C7_Witness ==
    \E r \in Requests :
        /\ Done(r)
        /\ req[r].notes = StringValue("")
        /\ req[r].response.status = 400

\* the NoteRecords and the flashcards among the writes of a call
noteWrites(r) ==
    selectSeq(req[r].written, { i \in 1..Len(req[r].written) :
                                  SubSeq(req[r].written[i].key, 1, 6) = "notes:" })
cardWrites(r) ==
    selectSeq(req[r].written, { i \in 1..Len(req[r].written) :
                                  SubSeq(req[r].written[i].key, 1, 11) = "flashcards:" })

\* C8: what a call adds to the store matches its response: after a success
\* exactly one NoteRecord and exactly the returned flashcards, all carrying
\* that NoteRecord's id; after an error nothing.
C8_StoreMatchesResponse ==
    \A r \in Requests :
        Done(r) =>
            IF req[r].response.status = 200
            THEN /\ Len(noteWrites(r)) = 1
                 /\ [ i \in 1..Len(cardWrites(r)) |-> cardWrites(r)[i].value ]
                        = req[r].response.flashcards
                 /\ \A i \in 1..Len(cardWrites(r)) :
                        cardWrites(r)[i].value.noteId = noteWrites(r)[1].value.id
            ELSE req[r].written = <<>>

\* the card lists the heuristic coordinator can return for a target, at any
\* clock value
backfillsOf(notes, targetCount) ==
    UNION { generateAdvancedFlashcards(notes, targetCount, now) : now \in 0..MaxClock }

\* C9: if the three tiers gave n < T cards, the heuristic coordinator is
\* invoked exactly once, with target T - n, and its cards follow the AI cards
\* (which stand in tier order); if n >= T it is not invoked and the result is
\* the first T AI cards.
C9_BackfillOnShortfall ==
    \A r \in Requests :
        Returned(r) =>
            LET ai == req[r].aiCards
                T == req[r].targetQuestions
                result == req[r].returned[1]
                tierOf(card) == CHOOSE t \in 1..NumTiers : tierTypes(T)[t].difficulty = card.difficulty
            IN /\ \A i \in 1..Len(ai) : ai[i].type = "ai_generated"
               /\ \A i \in 1..(Len(ai) - 1) : tierOf(ai[i]) <= tierOf(ai[i + 1])
               /\ IF Len(ai) < T
                  THEN /\ req[r].heuristicTargets = <<T - Len(ai)>>
                       /\ \E additionalCards \in backfillsOf(req[r].notes.text, T - Len(ai)) :
                              result = ai \o additionalCards
                  ELSE /\ req[r].heuristicTargets = <<>>
                       /\ result = SubSeq(ai, 1, T)

\* a run whose tiers gave some cards, fewer than the target, and whose
\* result ends with heuristic cards
C9_Witness ==
    \E r \in Requests :
        /\ Returned(r)
        /\ Len(req[r].aiCards) \in 1..(req[r].targetQuestions - 1)
        /\ Len(req[r].returned[1]) > Len(req[r].aiCards)

\* whether some cursor makes the archetype's builder return a card
canBuild(type, sentences, keyTerms) ==
    \E index \in 0..Max(Len(sentences), Len(keyTerms)) :
        builderResults(type, sentences, keyTerms, index, 0) # { <<>> }

\* each archetype's quota ceil(T * weight) is satisfiable from the pools
quotasSatisfiable(sentences, keyTerms, targetCount) ==
    \A t \in 1..Len(heuristicTypes) :
        \/ typeCountOf(targetCount, heuristicTypes[t]) = 0
        \/ canBuild(heuristicTypes[t].type, sentences, keyTerms)

\* C10: for non-empty sentence and key-term pools the heuristic coordinator
\* returns exactly T cards whenever each archetype's quota is individually
\* satisfiable from the pools.
C10_ExactlyTargetWhenSatisfiable ==
    \A r \in Requests :
        (req[r].sized /\ ~huggingfaceApiKey) =>
            LET sentences == sentencesOf(req[r].notes.text)
                keyTerms == extractKeyTerms(req[r].notes.text)
            IN (/\ sentences # <<>>
                /\ keyTerms # <<>>
                /\ quotasSatisfiable(sentences, keyTerms, req[r].targetQuestions))
               => Len(req[r].flashcards) = req[r].targetQuestions

\* the words joined by single spaces, word k (0-based) replaced by marker
RECURSIVE joinBlanked(_, _, _)
joinBlanked(words, k, marker) ==
    IF Len(words) = 0 THEN ""
    ELSE joinBlanked(SubSeq(words, 1, Len(words) - 1), k, marker)
         \o (IF Len(words) > 1 THEN " " ELSE "")
         \o (IF Len(words) - 1 = k THEN marker ELSE words[Len(words)])

\* the question of a fill-in-blank card after "Fill in the blank: "
blankedSentence(card) == SubSeq(card.question, 20, Len(card.question))

\* C11: for a sentence of more than 5 space-separated words the
\* fill-in-blank builder returns a card whose answer is a substring of the
\* sentence and does not appear in the question, the blank marker standing
\* at the middle word (index floor(n/2)); for a sentence of 5 words or fewer
\* and for an empty sentence list it returns no card.
C11_FillInBlankAnswerBlanked ==
    applied.fn = "generateFillInBlankCard" =>
        IF Len(applied.sentences) = 0 THEN applied.result = <<>>
        ELSE LET sentence == trim(applied.sentences[(applied.index % Len(applied.sentences)) + 1])
                 words == splitString(sentence, " ")
             IN IF Len(words) <= 5 THEN applied.result = <<>>
                ELSE /\ applied.result # <<>>
                     /\ includes(sentence, applied.result[1].answer)
                     /\ ~includes(blankedSentence(applied.result[1]), applied.result[1].answer)
                     /\ blankedSentence(applied.result[1])
                            = joinBlanked(words, Len(words) \div 2, "______")

\* a multiple-choice card was built
BuiltMultipleChoice == applied.fn = "generateMultipleChoiceCard" /\ applied.result # <<>>

\* the options a multiple-choice question shows: its lines after the first,
\* each without its "A) " .. "D) " label
shownOptions(card) ==
    LET lines == splitString(card.question, "\n")
    IN [ k \in 1..(Len(lines) - 1) |-> SubSeq(lines[k + 1], 4, Len(lines[k + 1])) ]

\* the position (1-based) the letter of the answer names, 0 for no letter of A-D
answerPosition(card) == indexOf("ABCD", SubSeq(card.answer, 1, 1))

\* C12: for every multiple-choice card built from the extractor's key terms
\* and every outcome of the shuffle, the letter of the answer is one of A-D
\* and the option shown at that letter is the correct term.
C12_LetterNamesCorrectOption ==
    BuiltMultipleChoice =>
        LET card == applied.result[1]
            term == applied.keyTerms[(applied.index % Len(applied.keyTerms)) + 1]
        IN /\ answerPosition(card) \in 1..4
           /\ answerPosition(card) <= Len(shownOptions(card))
           /\ shownOptions(card)[answerPosition(card)] = term
           /\ card.answer = SubSeq(card.answer, 1, 1) \o ") " \o term

\* a card of four key terms whose correct term the shuffle put last
C12_Witness ==
    /\ BuiltMultipleChoice
    /\ Len(applied.keyTerms) >= 4
    /\ SubSeq(applied.result[1].answer, 1, 1) = "D"

\* C13: a multiple-choice card shows four options, and every option that is
\* no key term reads "None of the above".
C13_UnfilledSlotsReadNone ==
    BuiltMultipleChoice =>
        LET options == shownOptions(applied.result[1])
        IN /\ Len(options) = 4
           /\ \A k \in 1..Len(options) :
                options[k] \in Range(applied.keyTerms) \cup {"None of the above"}

\* C14: the sizing estimator returns min(5, s) for w < 100,
\* min(10, floor(0.7 s)) for 100 <= w < 300, min(20, floor(0.5 s)) for
\* 300 <= w < 600 and min(30, floor(0.4 s)) for w >= 600; the result is a
\* non-negative integer, at most 30 and at most s, and 0 when s = 0.
C14_FourBuckets ==
    applied.fn = "calculateQuestionCount" =>
        LET w == applied.wordCount
            s == applied.sentenceCount
            floorOf(tenths) == CHOOSE n \in 0..s : 10 * n <= tenths * s /\ tenths * s < 10 * (n + 1)
        IN /\ w < 100 => applied.result = Min(5, s)
           /\ (100 <= w /\ w < 300) => applied.result = Min(10, floorOf(7))
           /\ (300 <= w /\ w < 600) => applied.result = Min(20, floorOf(5))
           /\ w >= 600 => applied.result = Min(30, floorOf(4))
           /\ applied.result \in 0..30
           /\ applied.result <= s
           /\ s = 0 => applied.result = 0

\* the last bucket at its cap
C14_Witness ==
    /\ applied.fn = "calculateQuestionCount"
    /\ applied.wordCount = 600
    /\ applied.sentenceCount = 75
    /\ applied.result = 30

\* C15: the server's calculateQuestionCount, the generator form's
\* calculateEstimatedQuestions and the inline computation of
\* StudyBuddy.generateFlashcards return the same target for the same counts
\* and for the same notes.
C15_ThreeCopiesAgree ==
    applied.fn \in {"calculateQuestionCount", "calculateQuestionCount(notes)"} =>
        /\ applied.estimate = applied.result
        /\ applied.inline = applied.result

\* the copies agree where 0.7 s is no integer
C15_Witness ==
    /\ applied.fn = "calculateQuestionCount"
    /\ applied.wordCount = 150
    /\ applied.sentenceCount = 9
    /\ applied.result = 6
    /\ applied.estimate = 6
    /\ applied.inline = 6

\* the legal combinations of type and difficulty
LegalCard(card) ==
    \/ card.type = "ai_generated" /\ card.difficulty \in {"basic", "intermediate", "advanced"}
    \/ card.type = "fill_blank" /\ card.difficulty = "basic"
    \/ card.type = "definition" /\ card.difficulty = "intermediate"
    \/ card.type = "true_false" /\ card.difficulty = "basic"
    \/ card.type = "multiple_choice" /\ card.difficulty = "advanced"

HeuristicTypeNames == {"fill_blank", "definition", "true_false", "multiple_choice"}

\* the flashcards the store holds
persistedCards ==
    { kv[k] : k \in { key \in DOMAIN kv : SubSeq(key, 1, 11) = "flashcards:" } }

\* the flashcards request r holds, saves or has returned
cardsOf(r) ==
    Range(req[r].flashcards) \cup Range(req[r].savedFlashcards)
    \cup Range(req[r].response.flashcards)

\* the cards request r' s tier step has just added
addedByTier(r) == SubSeq(req[r].flashcards', Len(req[r].flashcards) + 1, Len(req[r].flashcards'))

\* C16: every flashcard returned or persisted has type and difficulty set to
\* a legal combination (ai_generated with a tier's difficulty, fill_blank
\* with basic, definition with intermediate, true_false with basic,
\* multiple_choice with advanced); the cards a tier's response adds carry the
\* difficulty of that tier; with no API key every card has a heuristic type.
C16_LegalTypeAndDifficulty ==
    /\ [](\A card \in persistedCards \cup UNION { cardsOf(r) : r \in Requests } :
            /\ LegalCard(card)
            /\ ~huggingfaceApiKey => card.type \in HeuristicTypeNames)
    /\ [][\A r \in Requests :
            (req[r].pc = "await_response" /\ req[r].pc' = "progress_tier") =>
                \A k \in 1..Len(addedByTier(r)) :
                    /\ addedByTier(r)[k].type = "ai_generated"
                    /\ addedByTier(r)[k].difficulty = Last(req[r].requested)]_vars

\* a successful response holding an intermediate AI card and a heuristic card
C16_Witness ==
    \E r \in Requests :
        /\ Done(r)
        /\ req[r].response.status = 200
        /\ \E card \in Range(req[r].response.flashcards) :
             card.type = "ai_generated" /\ card.difficulty = "intermediate"
        /\ \E card \in Range(req[r].response.flashcards) : card.type \in HeuristicTypeNames
        /\ Range(req[r].response.flashcards) \subseteq persistedCards

\* C17: in every state of the store, also in the middle of a save and after
\* a failed store write, every persisted flashcard's noteId names a
\* NoteRecord present in the store under the same userId, and the flashcards
\* one save has written share the save's noteId and createdAt.
C17_CardsReferenceStoredNote ==
    /\ \A card \in persistedCards :
         /\ noteKey(card.userId, card.noteId) \in DOMAIN kv
         /\ kv[noteKey(card.userId, card.noteId)].id = card.noteId
    /\ \A r \in Requests :
         \A k \in 1..Len(req[r].savedFlashcards) :
             /\ req[r].savedFlashcards[k].noteId = req[r].noteId
             /\ req[r].savedFlashcards[k].createdAt = req[r].timestamp
             /\ req[r].savedFlashcards[k].userId = req[r].userId

\* a second save under way after a store write of the first save failed,
\* with a flashcard of the first save in the store
C17_Witness ==
    \E r \in Requests :
        /\ req[r].persistFailed
        /\ req[r].pc = "save_card"
        /\ persistedCards # {}
        /\ req[r].savedFlashcards = <<>>

\* generateAdvancedFlashcards was applied
RanHeuristic == applied.fn = "generateAdvancedFlashcards"

\* ceil(0.3 T) + ceil(0.3 T) + ceil(0.2 T) + ceil(0.2 T)
quotaSum(T) == 2 * ((3 * T + 9) \div 10) + 2 * ((2 * T + 9) \div 10)

\* C18: the heuristic coordinator returns a list (possibly empty) of at most
\* T cards after at most ceil(0.3T)+ceil(0.3T)+ceil(0.2T)+ceil(0.2T) builder
\* calls, also for target 0, an empty sentence list and an empty key-term
\* list; with target 0 or no sentence the list is empty.
C18_BoundedBuilderCalls ==
    RanHeuristic =>
        /\ Len(applied.calls) <= quotaSum(applied.targetCount)
        /\ Len(applied.flashcards) <= applied.targetCount
        /\ Len(applied.flashcards) <= Len(applied.calls)
        /\ applied.targetCount = 0 => applied.calls = <<>>
        /\ applied.sentences = <<>> => applied.flashcards = <<>>

\* no sentence but a key term: every call of every quota returns no card
C18_Witness ==
    /\ RanHeuristic
    /\ applied.sentences = <<>>
    /\ applied.keyTerms # <<>>
    /\ applied.targetCount = MaxTarget
    /\ applied.flashcards = <<>>
    /\ Len(applied.calls) = quotaSum(applied.targetCount)

\* the calls of the run made for the archetypes 1..t that returned a card
madeThrough(t) ==
    Cardinality({ k \in 1..Len(applied.calls) :
                    /\ applied.calls[k].made
                    /\ \E j \in 1..t : heuristicTypes[j].type = applied.calls[k].type })

madeOf(t) == madeThrough(t) - madeThrough(t - 1)

\* C19: a builder call that returns no card does not count against the
\* archetype's quota: an archetype whose builder can make a card from the
\* pools stops only with ceil(T * weight) cards made or with the target
\* reached.
C19_NullCallsNotCounted ==
    RanHeuristic =>
        \A t \in 1..Len(heuristicTypes) :
            canBuild(heuristicTypes[t].type, applied.sentences, applied.keyTerms) =>
                \/ madeOf(t) = CeilMul(applied.targetCount, heuristicTypes[t].weight, 10)
                \/ madeThrough(t) = applied.targetCount

\* C20: within one heuristic run every builder call receives a larger
\* cursor than the call before it, also after a call that returned no card.
C20_CursorStrictlyIncreasing ==
    RanHeuristic =>
        \A k \in 1..(Len(applied.calls) - 1) :
            applied.calls[k + 1].index > applied.calls[k].index

\* C21: a run of the AI tier coordinator that returns has written exactly
\* one initial record, one record per tier (status generating, whether the
\* tier succeeded or failed) and one terminal record.
C21_RecordAfterEveryTier ==
    \A r \in Requests :
        Returned(r) =>
            /\ Len(req[r].progressLog) = NumTiers + 2
            /\ \A k \in 1..(NumTiers + 1) : req[r].progressLog[k].status = "generating"
            /\ Last(req[r].progressLog).status = "completed"

\* the progress record the store holds for the session of request r
storedProgress(r) == kv[sessionKey(req[r].sessionId)]

\* C22: every generate call that took the AI path and wrote its initial
\* progress record has left the record in status completed when the caller
\* receives the response, also when a progress write failed and the route
\* fell back to the heuristic coordinator.
C22_FinishedRunLeavesCompleted ==
    \A r \in Requests :
        (Done(r) /\ EnteredCoordinator(r) /\ req[r].progressLog # <<>>) =>
            /\ sessionKey(req[r].sessionId) \in DOMAIN kv
            /\ storedProgress(r).status = "completed"

\* C23: for any interleaving of concurrent generate calls two runs never
\* share a session identifier, and the record stored under a run's progress
\* key is the record that run wrote last: no other run overwrites it.
C23_SessionKeysNotShared ==
    \A r1 \in Requests :
        EnteredCoordinator(r1) =>
            /\ \A r2 \in Requests \ {r1} :
                 EnteredCoordinator(r2) => req[r1].sessionId # req[r2].sessionId
            /\ req[r1].progressLog # <<>> => storedProgress(r1) = Last(req[r1].progressLog)

\* the writes of notes and flashcards all requests have made: request and
\* position in the request's list of writes
allWrites == UNION { { <<r, k>> : k \in 1..Len(req[r].written) } : r \in Requests }

\* totalGenerated summed over the requests 1..n
RECURSIVE sumGenerated(_)
sumGenerated(n) ==
    IF n = 0 THEN 0 ELSE sumGenerated(n - 1) + req[n].response.totalGenerated

\* C24: no NoteRecord key and no flashcard key is written twice, the cards
\* one call returns have pairwise distinct ids, and once every call has
\* succeeded the store holds as many flashcards as the calls generated.
C24_KeysWrittenOnce ==
    /\ \A w1, w2 \in allWrites :
         w1 # w2 => req[w1[1]].written[w1[2]].key # req[w2[1]].written[w2[2]].key
    /\ \A r \in Requests :
         \A i, j \in 1..Len(req[r].response.flashcards) :
             i # j => req[r].response.flashcards[i].id # req[r].response.flashcards[j].id
    /\ (\A r \in Requests : Done(r) /\ req[r].response.status = 200)
         => Cardinality(persistedCards) = sumGenerated(NumRequests)

\* C25: with no API key configured a generate call runs the heuristic
\* coordinator alone: no request is sent to the AI service, no progress
\* record is written, and when its store writes succeed the call persists
\* and returns the heuristic coordinator's cards with status 200.
C25_NoKeyHeuristicAlone ==
    ~huggingfaceApiKey =>
        /\ \A key \in DOMAIN kv : SubSeq(key, 1, 9) # "progress:"
        /\ \A r \in Requests :
             /\ req[r].requested = <<>>
             /\ req[r].progressLog = <<>>
             /\ ~EnteredCoordinator(r)
             /\ (Done(r) /\ ~InvalidInput(req[r].notes) /\ ~req[r].persistFailed) =>
                  /\ req[r].response.status = 200
                  /\ req[r].flashcards
                        \in backfillsOf(req[r].notes.text,
                                        calculateQuestionCount(req[r].notes.text))
                  /\ req[r].response.totalGenerated = Len(req[r].flashcards)
                  /\ Len(req[r].response.flashcards) = Len(req[r].flashcards)
                  /\ Range(req[r].response.flashcards) \subseteq persistedCards

\* a successful call without API key that returned cards
C25_Witness ==
    /\ ~huggingfaceApiKey
    /\ \E r \in Requests :
         /\ Done(r)
         /\ req[r].response.status = 200
         /\ req[r].response.totalGenerated > 0
         /\ req[r].requested = <<>>

\* the sentences (by position) that contain the term, case ignored
containing(sentences, term) ==
    { i \in 1..Len(sentences) : includes(toLowerCase(sentences[i]), toLowerCase(term)) }

\* the first of them
firstContaining(sentences, term) ==
    sentences[CHOOSE i \in containing(sentences, term) :
                 \A j \in containing(sentences, term) : i <= j]

\* the term keyTerms[index mod length] of the application
selectedTerm == applied.keyTerms[(applied.index % Len(applied.keyTerms)) + 1]

\* C26: the definition builder selects keyTerms[index mod length] and
\* answers with the first sentence that contains the term, case ignored,
\* trimmed; it returns no card for an empty key-term list and when no
\* sentence contains the term.  The multiple-choice builder uses the same
\* term and the same sentence.
C26_FirstSentenceWithTerm ==
    /\ applied.fn = "generateDefinitionCard" =>
         IF applied.keyTerms = <<>> THEN applied.result = <<>>
         ELSE IF containing(applied.sentences, selectedTerm) = {} THEN applied.result = <<>>
         ELSE /\ applied.result # <<>>
              /\ applied.result[1].question = "What is " \o selectedTerm \o "?"
              /\ applied.result[1].answer
                    = trim(firstContaining(applied.sentences, selectedTerm))
    /\ applied.fn = "generateMultipleChoiceCard" =>
         IF applied.keyTerms = <<>> \/ applied.sentences = <<>> THEN applied.result = <<>>
         ELSE IF containing(applied.sentences, selectedTerm) = {} THEN applied.result = <<>>
         ELSE /\ applied.result # <<>>
              /\ splitString(applied.result[1].question, "\n")[1]
                    = "Which term is described by: \""
                      \o firstContaining(applied.sentences, selectedTerm) \o "\"?"
              /\ SubSeq(applied.result[1].answer, 4, Len(applied.result[1].answer))
                    = selectedTerm

\* the term Cells answered by the sentence that holds it in lower case
C26_Witness ==
    /\ applied.fn = "generateDefinitionCard"
    /\ applied.result # <<>>
    /\ applied.result[1].question = "What is Cells?"
    /\ applied.result[1].answer = "The cells are small units"

\* the Reveal Answer Option is rendered in no state the viewer reaches, which
\* is why NextViewer has no revealAnswer step
RevealNeverRendered == ~revealOffered

\* C27: a card that is shown on its question side with three attempts made
\* and none of them correct has the Reveal Answer prompt rendered (no user
\* has pressed Reveal Answer in any state the viewer reaches)
C27_RevealOfferedAfterThreeMisses ==
    ( /\ Len(viewer.flashcards) > 0
      /\ ~viewer.isFlipped
      /\ currentAttempt.attempts >= 3
      /\ ~currentAttempt.isCorrect )
    => revealOffered

\* C28: when the timer armed by a correct answer or by Mark as Learned on
\* card i fires, the viewer shows card (i + 1) mod n, whatever the user has
\* done since the timer was armed
C28_AutoAdvanceShowsNextOfAnswered ==
    [][ \A k \in 1..Len(viewer.timers) :
          ( /\ viewer.timers[k].callback = "nextCard"
            /\ canFire(k)
            /\ viewer' = fired(k) )
          => viewer'.currentIndex
               = (viewer.timers[k].armedOn + 1) % Len(viewer.flashcards) ]_vars

\* card i takes no attempt any more: it is completed or its answer is shown
closedCard(i) ==
    \/ i \in viewer.completedCards
    \/ attemptOf(viewer.cardAttempts, i).showAnswer

\* C29: in every state the attempt counter of every card is in 0..3 and
\* currentIndex is in 0..n-1, and no step raises the attempt counter of a
\* card that is completed or whose answer is shown
C29_AttemptsAndIndexBounded ==
    /\ [] ( /\ \A i \in DOMAIN viewer.cardAttempts :
                 viewer.cardAttempts[i].attempts \in 0..3
            /\ Len(viewer.flashcards) > 0
                 => viewer.currentIndex \in 0..(Len(viewer.flashcards) - 1) )
    /\ [][ \A i \in 0..(Len(viewer.flashcards) - 1) :
             closedCard(i)
             => attemptOf(viewer'.cardAttempts, i).attempts
                  <= attemptOf(viewer.cardAttempts, i).attempts ]_vars

\* a card with three incorrect attempts is shown on its question side with
\* no feedback pending, after another card was completed and the viewer
\* wrapped around the list
C29_Witness ==
    /\ Len(viewer.flashcards) > 1
    /\ ~viewer.isFlipped
    /\ viewer.showFeedback = NoFeedback
    /\ viewer.currentIndex = Len(viewer.flashcards) - 1
    /\ currentAttempt.attempts = 3
    /\ currentAttempt.showAnswer
    /\ viewer.completedCards # {}
    /\ viewer.timers = <<>>

\* C30: the total of the client's generation progress and the targetCount it
\* sends are the target the route computes for the notes of the request
C30_AnnouncedTargetIsServerTarget ==
    applied.fn = "handleGenerate"
    => /\ applied.total = applied.targetQuestions
       /\ applied.targetCount = applied.targetQuestions

====
